---- MODULE Spec2Model ----
(***************************************************************************)
(* A model of the prefetch scheduler and download engine of tokstr-rs      *)
(* (src/src/download/manager.rs) together with the shared state it works   *)
(* on (src/src/service/state.rs, src/src/service/playlist.rs) and the      *)
(* playback cursor set by the HTTP surface (src/src/handlers/handlers.rs). *)
(*                                                                         *)
(* One scheduler loop (DownloadManager::run) walks through the four steps  *)
(* of a tick, one action per step; every spawned download task is a        *)
(* process of its own whose actions are the stretches of code between the  *)
(* points where it waits for the network, the disk or the completion       *)
(* handler.  Scheduler steps, task steps, stop_download and set_index      *)
(* interleave freely.                                                      *)
(*                                                                         *)
(* Spec is that system.  RankSpec calls sort_videos_for_download on its own *)
(* on candidate lists and targets drawn from small sets.  BridgeSpec is the *)
(* foreign boundary (src/src/bridge.rs) with the playlist it reads.        *)
(* DiscoverySpec is content discovery (src/src/discovery): the background  *)
(* task that parses events and sends videos, and fetch_new_videos.         *)
(* LockSpec is what each code path does with the mutexes of the shared    *)
(* state.  The reply of GET /video.mp4 is an operator over the state.      *)
(*                                                                         *)
(* Option<T> is modelled as a sequence: None is <<>>, Some(v) is <<v>>.    *)
(***************************************************************************)
EXTENDS Integers, Sequences, FiniteSets, TLC

\* ---------------------------------------------------------------- bounds
\* Number of distinct content ids the descriptor source can deliver.
NumVideos == 2
\* Number of download tasks that can be in flight at once in the model.
NumTasks == 2
\* Number of output paths (fresh UUID file names) that can be allocated.
MaxPaths == 2
\* Largest chunk the HTTP response delivers at once.
MaxChunkLen == 2
\* Largest playback index POST /set_index is given.  Nothing in the program
\* depends on the value of the cursor: enforce_behind_limit reads it and
\* does not use it.
MaxIndex == 0
\* Configuration given to start(): the concurrency limit and the byte budget.
max_parallel_downloads == 1
max_storage_bytes == 2

\* ------------------------------------------------------ program constants
max_behind_seconds == 60
target_videos_ahead == 15
target_minutes_ahead == 60

\* The threads that take mutexes: the scheduler loop, the spawned download
\* tasks, and a caller of stop_download.
Threads ==
    {<<"scheduler", 0>>, <<"caller", 0>>} \cup {<<"task", t>> : t \in 1..NumTasks}

Ids == 1..NumVideos
Tasks == 1..NumTasks
Paths == 1..MaxPaths

None == <<>>
Some(v) == <<v>>
IsSome(o) == o # <<>>
Unwrap(o) == o[1]

\* ------------------------------------------------------------ environment
\* The remote file behind a descriptor's url: its size in bytes (what the
\* server reports as Content-Length, and the number of bytes the body
\* delivers), whether the server answers a HEAD probe with a Content-Length
\* (the GET response always carries one), the duration the container parser
\* extracts, and the number of leading bytes the parser needs to find the
\* metadata.
SizeOf(id) == id
HeadOk(id) == id = 1
DurationOf(id) == IF id = 1 THEN 90 ELSE 30
MoovAt(id) == id
\* The ranker's score of a video: the videos 5, 6 and 7 have the same score.
ScoreOf(id) == IF id \in {6, 7} THEN 5 ELSE id

\* u64 arithmetic is kept modulo 2^30.
U64Modulus == 1073741824
\* u64::MAX.
U64Max == U64Modulus - 1

VARIABLES
    discovered,             \* AppState.discovered_videos: id -> VideoDownload
    download_queue,         \* DownloadManager.download_queue: Seq(VideoDownload)
    playlist,               \* AppState.playlist
    current_storage_bytes,  \* AppState.current_storage_bytes
    current_index,          \* AppState.current_index
    disk,                   \* the temp directory: path -> None | Some(file length)
    next_path,              \* the next fresh Uuid::new_v4() file name
    tasks,                  \* the spawned download tasks
    pc,                     \* the step DownloadManager::run takes next
    stopped,                \* the tasks in flight whose id stop_download was
                            \* called for (with result true) since they started
    \* sort_videos_for_download called on its own
    videos_in,              \* the candidate list as it was handed in
    videos_vec,             \* videos: &mut Vec<VideoDownload>, sorted in place
    tva_arg,                \* the argument target_videos_ahead
    tma_arg,                \* the argument target_minutes_ahead
    rank_calls,             \* the number of calls made on videos_vec
    \* the foreign boundary (src/src/bridge.rs)
    GLOBAL_STATE,           \* the OnceCell: None | Some(the AppState it holds)
    app_states,             \* the number of AppStates created
    schedulers,             \* the number of DownloadManager::run loops spawned
    servers,                \* the number of HTTP server tasks spawned
    address,                \* the string ffi_start_server returned last
    added,                  \* the ids Playlist::add was called with, call
                            \* after call
    delivered,              \* the entries ffi_get_discovered_videos has
                            \* returned, call after call
    \* content discovery (src/src/discovery/fetchers.rs)
    event,                  \* the event the background task works on, or None
    pending,                \* the videos parsed from it that are not sent yet
    known_authors,          \* the author cache: bech32 key -> UserData
    channel,                \* the unbounded channel video_sender/video_receiver
    sent,                   \* every video sent into the channel, in order
    fetch_result,           \* result of the fetch_new_videos call under way,
                            \* or None
    batches,                \* the batches fetch_new_videos returned, joined
    \* the mutexes, one code path at a time per thread
    lpath,                  \* thread -> the code path it runs ("idle": none)
    lpc,                    \* thread -> the number of steps of it taken
    held                    \* thread -> the mutexes it holds, oldest first

discovery_vars ==
    <<event, pending, known_authors, channel, sent, fetch_result, batches>>
lock_vars == <<lpath, lpc, held>>

ranker_vars == <<videos_in, videos_vec, tva_arg, tma_arg, rank_calls>>
bridge_vars ==
    <<GLOBAL_STATE, app_states, schedulers, servers, address, added, delivered>>

vars == <<discovered, download_queue, playlist, current_storage_bytes,
          current_index, disk, next_path, tasks, pc, stopped,
          ranker_vars, bridge_vars, discovery_vars, lock_vars>>

\* ------------------------------------------------------------ VideoDownload
\* VideoDownload::from_nostr_video: the record of a freshly discovered video.
from_nostr_video(id) ==
    [id |-> id, local_path |-> None, downloading |-> FALSE,
     length_seconds |-> None, downloaded_bytes |-> 0, content_length |-> None]

has_local_file(video) == IsSome(video.local_path)

\* video.clone() as the queue, the tasks and the playlist keep it: of a clone
\* only the id, local_path and downloading are ever read again (by
\* download_videos, stop_download and ffi_get_discovered_videos), so the model
\* keeps those fields of it.
Clone(video) ==
    [id |-> video.id, local_path |-> video.local_path,
     downloading |-> video.downloading]

\* ------------------------------------------------------------ Playlist
PlaylistNew ==
    [current_position |-> None, last_sent_position |-> None,
     items |-> <<>>, items_by_id |-> <<>>]

\* Playlist::add without the early return: the video is pushed and indexed
\* whether or not its id is there.
PlaylistAddUnchecked(pl, video) ==
    [pl EXCEPT
       !.items = Append(pl.items, video),
       !.items_by_id = [i \in DOMAIN pl.items_by_id \cup {video.id} |->
                           IF i = video.id THEN Len(pl.items)
                           ELSE pl.items_by_id[i]]]

\* Playlist::add that computes and stores the index before it looks for the
\* id: an id that is there is indexed anew, at items.len().
PlaylistAddReindexing(pl, video) ==
    IF video.id \in DOMAIN pl.items_by_id
    THEN [pl EXCEPT !.items_by_id[video.id] = Len(pl.items)]
    ELSE PlaylistAddUnchecked(pl, video)

\* Playlist::add: a no-op when the id is already indexed, else push and index.
\* items_by_id maps an id to the 0-based position in items.
PlaylistAdd(pl, video) ==
    IF video.id \in DOMAIN pl.items_by_id
    THEN pl
    ELSE [pl EXCEPT
            !.items = Append(pl.items, video),
            !.items_by_id = [i \in DOMAIN pl.items_by_id \cup {video.id} |->
                                IF i = video.id THEN Len(pl.items)
                                ELSE pl.items_by_id[i]]]

\* Playlist::current: the entry at the cursor, when the cursor is set and
\* within items.
PlaylistCurrent(pl) ==
    IF IsSome(pl.current_position)
          /\ Unwrap(pl.current_position) < Len(pl.items)
    THEN Some(pl.items[Unwrap(pl.current_position) + 1])
    ELSE None

\* What Playlist::next and Playlist::prev return: the neighbour the cursor
\* moves to, None when the cursor does not move.
PlaylistNextResult(pl) ==
    IF IsSome(pl.current_position)
          /\ Unwrap(pl.current_position) + 1 < Len(pl.items)
    THEN Some(pl.items[Unwrap(pl.current_position) + 2])
    ELSE None

PlaylistPrevResult(pl) ==
    IF IsSome(pl.current_position) /\ Unwrap(pl.current_position) > 0
    THEN Some(pl.items[Unwrap(pl.current_position)])
    ELSE None

\* A Playlist::next that puts an unset cursor on the first entry.
PlaylistNextFromStart(pl) ==
    IF ~IsSome(pl.current_position)
    THEN IF Len(pl.items) > 0
         THEN [pl EXCEPT !.current_position = Some(0)]
         ELSE pl
    ELSE IF Unwrap(pl.current_position) + 1 < Len(pl.items)
         THEN [pl EXCEPT !.current_position = Some(Unwrap(pl.current_position) + 1)]
         ELSE pl

\* Playlist::next and Playlist::prev: the cursor moves when it is set and the
\* neighbour exists.
PlaylistNext(pl) ==
    IF IsSome(pl.current_position)
          /\ Unwrap(pl.current_position) + 1 < Len(pl.items)
    THEN [pl EXCEPT !.current_position = Some(Unwrap(pl.current_position) + 1)]
    ELSE pl

PlaylistPrev(pl) ==
    IF IsSome(pl.current_position) /\ Unwrap(pl.current_position) > 0
    THEN [pl EXCEPT !.current_position = Some(Unwrap(pl.current_position) - 1)]
    ELSE pl

\* Playlist::new_content: the playlist after the call and the list returned.
\* With last_sent_position = Some(pos) and items after pos, those items are
\* returned; otherwise (last_sent_position rewritten with its own value
\* when it is set) all items are.
new_content(pl) ==
    IF IsSome(pl.last_sent_position)
          /\ Unwrap(pl.last_sent_position) + 1 < Len(pl.items)
    THEN [playlist |-> pl,
          result |-> SubSeq(pl.items, Unwrap(pl.last_sent_position) + 2,
                            Len(pl.items))]
    ELSE [playlist |-> pl, result |-> pl.items]

\* The FfiVideoDownload ffi_get_discovered_videos makes of a playlist entry:
\* local_path is passed on when the entry has one and is not downloading.
FfiVideoDownload(vid) ==
    [id |-> vid.id,
     local_path |-> IF IsSome(vid.local_path) /\ ~vid.downloading
                    THEN vid.local_path ELSE None]

\* ------------------------------------------------------------ the ranker
\* content_length.unwrap_or(u64::MAX) compared with cmp: an unknown length is
\* u64::MAX, greater than every smaller known one and equal to another
\* unknown one.
\* A length key under which an unknown length sorts first.
LenKeyUnknownFirst(v) ==
    IF IsSome(v.content_length) THEN Unwrap(v.content_length) ELSE 0

\* content_length.unwrap_or(u64::MAX).
LenKey(v) ==
    IF IsSome(v.content_length) THEN Unwrap(v.content_length) ELSE U64Max

LenLess(a, b) == LenKey(a) < LenKey(b)

LenEqual(a, b) == ~LenLess(a, b) /\ ~LenLess(b, a)

\* The comparator of needed.sort_by: Less when a sorts strictly before b.
\* content_length ascending, then score descending.
NeededLess(a, b) ==
    \/ LenLess(a, b)
    \/ LenEqual(a, b) /\ ScoreOf(b.id) < ScoreOf(a.id)

\* A leftover comparator that is a copy of the needed one: content_length
\* first, then score.
LeftoverLessSizeFirst(a, b) == NeededLess(a, b)

\* The comparator of leftover.sort_by: score descending, then content_length
\* ascending.
LeftoverLess(a, b) ==
    \/ ScoreOf(b.id) < ScoreOf(a.id)
    \/ ScoreOf(b.id) = ScoreOf(a.id) /\ LenLess(a, b)

\* Vec::sort_by is a stable sort: x goes before the first element it is
\* strictly less than, so equal elements keep their order.
RECURSIVE InsertNeeded(_, _)
InsertNeeded(s, x) ==
    IF s = <<>> THEN <<x>>
    ELSE IF NeededLess(x, Head(s)) THEN <<x>> \o s
    ELSE <<Head(s)>> \o InsertNeeded(Tail(s), x)

RECURSIVE SortNeeded(_)
SortNeeded(s) ==
    IF s = <<>> THEN <<>>
    ELSE InsertNeeded(SortNeeded(SubSeq(s, 1, Len(s) - 1)), s[Len(s)])

RECURSIVE InsertLeftover(_, _)
InsertLeftover(s, x) ==
    IF s = <<>> THEN <<x>>
    ELSE IF LeftoverLess(x, Head(s)) THEN <<x>> \o s
    ELSE <<Head(s)>> \o InsertLeftover(Tail(s), x)

RECURSIVE SortLeftover(_)
SortLeftover(s) ==
    IF s = <<>> THEN <<>>
    ELSE InsertLeftover(SortLeftover(SubSeq(s, 1, Len(s) - 1)), s[Len(s)])

\* partition_for_target's loop from position i on, with the running count and
\* the running duration.  The code accumulates minutes (secs / 60.0) and
\* compares with target_minutes_ahead; the model accumulates seconds and
\* compares with 60 * target_minutes_ahead.
RECURSIVE PartitionFrom(_, _, _, _, _, _, _)
PartitionFrom(videos, i, count, seconds, tva, tma, acc) ==
    IF i > Len(videos) THEN acc
    ELSE IF count >= tva /\ seconds >= 60 * tma
         THEN PartitionFrom(videos, i + 1, count, seconds, tva, tma,
                  [acc EXCEPT !.leftover = Append(@, videos[i])])
         ELSE PartitionFrom(videos, i + 1, count + 1,
                  IF IsSome(videos[i].length_seconds)
                  THEN seconds + Unwrap(videos[i].length_seconds)
                  ELSE seconds,
                  tva, tma,
                  [acc EXCEPT !.needed = Append(@, videos[i])])

\* A partition that ends the needed group as soon as either target is met
\* (the rule of the function's doc comment).
RECURSIVE PartitionEitherFrom(_, _, _, _, _, _, _)
PartitionEitherFrom(videos, i, count, seconds, tva, tma, acc) ==
    IF i > Len(videos) THEN acc
    ELSE IF count >= tva \/ seconds >= 60 * tma
         THEN PartitionEitherFrom(videos, i + 1, count, seconds, tva, tma,
                  [acc EXCEPT !.leftover = Append(@, videos[i])])
         ELSE PartitionEitherFrom(videos, i + 1, count + 1,
                  IF IsSome(videos[i].length_seconds)
                  THEN seconds + Unwrap(videos[i].length_seconds)
                  ELSE seconds,
                  tva, tma,
                  [acc EXCEPT !.needed = Append(@, videos[i])])

partition_for_either_target(videos, tva, tma) ==
    PartitionEitherFrom(videos, 1, 0, 0, tva, tma,
                        [needed |-> <<>>, leftover |-> <<>>])

partition_for_target(videos, tva, tma) ==
    PartitionFrom(videos, 1, 0, 0, tva, tma, [needed |-> <<>>, leftover |-> <<>>])

\* sort_videos_for_download without the final append: the leftover group is
\* lost.
sort_needed_only(videos, tva, tma) ==
    SortNeeded(partition_for_target(videos, tva, tma).needed)

sort_videos_for_download(videos, tva, tma) ==
    LET parts == partition_for_target(videos, tva, tma)
    IN  SortNeeded(parts.needed) \o SortLeftover(parts.leftover)

\* ------------------------------------------------------------ helpers
\* All orders in which a HashMap can hand out the values of the keys in S.
Orders(S) ==
    {o \in [1..Cardinality(S) -> S] : \A i, j \in DOMAIN o : i # j => o[i] # o[j]}

\* queue.iter().position(|v| v.id == id) and queue.remove(pos): the queue
\* without its first entry of that id.
RECURSIVE RemoveFirstId(_, _)
RemoveFirstId(q, id) ==
    IF q = <<>> THEN <<>>
    ELSE IF Head(q).id = id THEN Tail(q)
    ELSE <<Head(q)>> \o RemoveFirstId(Tail(q), id)

InQueue(q, id) == \E i \in DOMAIN q : q[i].id = id

\* queue.iter_mut().find(|qv| qv.id == id): the first entry of that id gets
\* downloading = true.
RECURSIVE MarkFirstId(_, _)
MarkFirstId(q, id) ==
    IF q = <<>> THEN <<>>
    ELSE IF Head(q).id = id THEN <<[Head(q) EXCEPT !.downloading = TRUE]>> \o Tail(q)
    ELSE <<Head(q)>> \o MarkFirstId(Tail(q), id)

\* Iterator::take(n).
Take(s, n) == SubSeq(s, 1, IF n < Len(s) THEN n ELSE Len(s))

\* tokio::fs::remove_file on every path of P: the file is gone afterwards
\* (a path with no file is an ignored error).
RemoveFiles(d, P) == [p \in Paths |-> IF p \in P THEN None ELSE d[p]]

\* The length tokio::fs::metadata reports for a path; 0 when there is no file.
FileLen(p) == IF IsSome(disk[p]) THEN Unwrap(disk[p]) ELSE 0

\* ------------------------------------------------------------ tasks
FreeTask ==
    [pc |-> "free", video |-> Clone(from_nostr_video(1)), file_path |-> None,
     downloaded_bytes |-> 0, chunk |-> 0, metadata_extracted |-> FALSE]

InFlight(t) == tasks[t].pc # "free"

\* ------------------------------------------------------------ initial state
\* The address start_axum_server binds when it is given none.
addr_str == "127.0.0.1:3000"

\* AppState::new and DownloadManager::new: empty table, queue and playlist,
\* nothing accounted, the cursor at 0, no task.
ManagerInit ==
    /\ discovered = <<>>
    /\ download_queue = <<>>
    /\ playlist = PlaylistNew
    /\ current_storage_bytes = 0
    /\ current_index = 0
    /\ disk = [p \in Paths |-> None]
    /\ next_path = 1
    /\ tasks = [t \in Tasks |-> FreeTask]
    /\ pc = "discovery_new_videos"
    /\ stopped = {}

\* No call of sort_videos_for_download on its own is under way.
RankerIdle ==
    /\ videos_in = <<>> /\ videos_vec = <<>>
    /\ tva_arg = 0 /\ tma_arg = 0 /\ rank_calls = 0

\* The state after the first ffi_start_server: one AppState held by
\* GLOBAL_STATE, its scheduler loop and its HTTP server.
BridgeStarted ==
    /\ GLOBAL_STATE = Some(1) /\ app_states = 1 /\ schedulers = 1 /\ servers = 1
    /\ address = Some(addr_str)
    /\ added = <<>>
    /\ delivered = <<>>

\* ContentDiscovery::new: nothing received, an empty cache, an empty
\* channel.
DiscoveryInit ==
    /\ event = None /\ pending = <<>>
    /\ known_authors = <<>>
    /\ channel = <<>> /\ sent = <<>>
    /\ fetch_result = None /\ batches = <<>>

\* No thread is inside a code path that takes a mutex.
LocksIdle ==
    /\ lpath = [th \in Threads |-> "idle"]
    /\ lpc = [th \in Threads |-> 0]
    /\ held = [th \in Threads |-> <<>>]

Init == ManagerInit /\ RankerIdle /\ BridgeStarted /\ DiscoveryInit /\ LocksIdle

\* ------------------------------------------------------------ the scheduler
\* fetch_content_lengths_in_parallel for one video: the HEAD probe fills in
\* content_length when it succeeds and leaves the record as it is otherwise.
fetch_content_length(video) ==
    IF ~IsSome(video.content_length) /\ HeadOk(video.id)
    THEN [video EXCEPT !.content_length = Some(SizeOf(video.id))]
    ELSE video

\* discovery_new_videos: the batch drained from the descriptor channel holds
\* the ids of batch.  Every enriched record is inserted with HashMap::insert,
\* which replaces the record the table holds under that id.
discovery_new_videos(batch) ==
    /\ pc = "discovery_new_videos"
    /\ discovered' =
         [i \in DOMAIN discovered \cup batch |->
            IF i \in batch
            THEN fetch_content_length(from_nostr_video(i))
            ELSE discovered[i]]
    /\ pc' = "update_download_queue"
    /\ UNCHANGED <<download_queue, playlist, current_storage_bytes, current_index,
                   disk, next_path, tasks,
                   stopped, ranker_vars, bridge_vars,
                   discovery_vars, lock_vars>>

\* update_download_queue: clone the table's values (in the HashMap's
\* iteration order), keep those without a local file, sort, and replace the
\* queue wholesale.
update_download_queue ==
    /\ pc = "update_download_queue"
    /\ \E o \in Orders(DOMAIN discovered) :
         LET all_videos == [i \in 1..Len(o) |-> discovered[o[i]]]
             kept == SelectSeq(all_videos, LAMBDA v : ~has_local_file(v))
             sorted == sort_videos_for_download(kept, target_videos_ahead,
                                                target_minutes_ahead)
         IN  download_queue' = [i \in 1..Len(sorted) |-> Clone(sorted[i])]
    /\ pc' = "enforce_behind_limit"
    /\ UNCHANGED <<discovered, playlist, current_storage_bytes, current_index,
                   disk, next_path, tasks,
                   stopped, ranker_vars, bridge_vars,
                   discovery_vars, lock_vars>>

\* The test enforce_behind_limit applies to a record.
BehindLimit(video) ==
    /\ IsSome(video.length_seconds)
    /\ Unwrap(video.length_seconds) > max_behind_seconds

\* The records enforce_behind_limit takes the local path of.
Evicted == {i \in DOMAIN discovered :
               BehindLimit(discovered[i]) /\ has_local_file(discovered[i])}

\* enforce_behind_limit: local_path.take() of every record that passes the
\* test, then remove_file of every path taken.
enforce_behind_limit ==
    /\ pc = "enforce_behind_limit"
    /\ discovered' = [i \in DOMAIN discovered |->
                        IF i \in Evicted
                        THEN [discovered[i] EXCEPT !.local_path = None]
                        ELSE discovered[i]]
    /\ disk' = RemoveFiles(disk, {Unwrap(discovered[i].local_path) : i \in Evicted})
    /\ pc' = "download_videos"
    /\ UNCHANGED <<download_queue, playlist, current_storage_bytes, current_index,
                   next_path, tasks,
                   stopped, ranker_vars, bridge_vars,
                   discovery_vars, lock_vars>>

\* The number of downloads download_videos takes to be running: the queue
\* entries with downloading set.
ConcurrentDownloads(queue_snapshot) ==
    Len(SelectSeq(queue_snapshot, LAMBDA v : v.downloading))

\* The entries download_videos starts: none at the limit, else the first
\* max_downloads - concurrent_downloads entries that are not downloading.
ToStart(queue_snapshot) ==
    LET concurrent_downloads == ConcurrentDownloads(queue_snapshot)
    IN  IF concurrent_downloads >= max_parallel_downloads
        THEN <<>>
        ELSE Take(SelectSeq(queue_snapshot, LAMBDA v : ~v.downloading),
                  max_parallel_downloads - concurrent_downloads)

FreeTasks(ts) == {t \in Tasks : ts[t].pc = "free"}

\* A loop that clones the video for the task after marking it.
RECURSIVE StartFromMarked(_, _, _)
StartFromMarked(to_start, i, st) ==
    IF i > Len(to_start) THEN st
    ELSE LET video == to_start[i]
             t == CHOOSE u \in FreeTasks(st.tasks) :
                      \A w \in FreeTasks(st.tasks) : u <= w
         IN  StartFromMarked(to_start, i + 1,
                 [discovered |->
                      IF video.id \in DOMAIN st.discovered
                      THEN [st.discovered EXCEPT ![video.id].downloading = TRUE]
                      ELSE st.discovered,
                  download_queue |-> MarkFirstId(st.download_queue, video.id),
                  tasks |-> [st.tasks EXCEPT ![t] =
                                [FreeTask EXCEPT
                                    !.pc = "get",
                                    !.video = [video EXCEPT !.downloading = TRUE]]]])

\* The loop of download_videos over to_start from position i on: the record
\* and the queue entry are marked and a task is spawned with the clone taken
\* from the queue snapshot.  st holds the table, the queue and the tasks.
RECURSIVE StartFrom(_, _, _)
StartFrom(to_start, i, st) ==
    IF i > Len(to_start) THEN st
    ELSE LET video == to_start[i]
             t == CHOOSE u \in FreeTasks(st.tasks) :
                      \A w \in FreeTasks(st.tasks) : u <= w
         IN  StartFrom(to_start, i + 1,
                 [discovered |->
                      IF video.id \in DOMAIN st.discovered
                      THEN [st.discovered EXCEPT ![video.id].downloading = TRUE]
                      ELSE st.discovered,
                  download_queue |-> MarkFirstId(st.download_queue, video.id),
                  tasks |-> [st.tasks EXCEPT ![t] =
                                [FreeTask EXCEPT !.pc = "get", !.video = video]]])

\* download_videos.
download_videos ==
    /\ pc = "download_videos"
    /\ LET to_start == ToStart(download_queue)
       IN  /\ Cardinality(FreeTasks(tasks)) >= Len(to_start)
           /\ LET st == StartFrom(to_start, 1,
                            [discovered |-> discovered,
                             download_queue |-> download_queue,
                             tasks |-> tasks])
              IN  /\ discovered' = st.discovered
                  /\ download_queue' = st.download_queue
                  /\ tasks' = st.tasks
    /\ pc' = "discovery_new_videos"
    /\ UNCHANGED <<playlist, current_storage_bytes, current_index, disk, next_path,
                   stopped, ranker_vars, bridge_vars,
                   discovery_vars, lock_vars>>

\* POST /set_index: the playback cursor is overwritten.
set_index(index) ==
    /\ current_index' = index
    /\ UNCHANGED <<discovered, download_queue, playlist, current_storage_bytes,
                   disk, next_path, tasks, pc,
                   stopped, ranker_vars, bridge_vars,
                   discovery_vars, lock_vars>>

\* stop_download(video_id): when the id is queued, the entry is removed, the
\* record's flag is cleared and the file the removed entry names is deleted.
\* When the id is not queued the call returns false and changes nothing.
stop_download(video_id) ==
    /\ InQueue(download_queue, video_id)
    /\ LET pos == CHOOSE i \in DOMAIN download_queue :
                      /\ download_queue[i].id = video_id
                      /\ \A j \in 1..(i - 1) : download_queue[j].id # video_id
           removed == download_queue[pos]
       IN  /\ download_queue' = RemoveFirstId(download_queue, video_id)
           /\ discovered' =
                IF video_id \in DOMAIN discovered
                THEN [discovered EXCEPT ![video_id].downloading = FALSE]
                ELSE discovered
           /\ disk' = IF IsSome(removed.local_path)
                      THEN RemoveFiles(disk, {Unwrap(removed.local_path)})
                      ELSE disk
    /\ stopped' = stopped \cup {t \in Tasks : InFlight(t) /\ tasks[t].video.id = video_id}
    /\ UNCHANGED <<playlist, current_storage_bytes, current_index, next_path,
                   tasks, pc, ranker_vars, bridge_vars,
                   discovery_vars, lock_vars>>

\* ------------------------------------------------------------ a download task
\* The bytes a task has added to the accountant: those written, and the
\* chunk it accounted but has not (or could not) write.
Accounted(t) == tasks[t].downloaded_bytes + tasks[t].chunk

\* A storage check that forgets the chunk: it looks at the bytes already
\* accounted only.
StorageExceededIgnoringChunk(storage, len) == storage > max_storage_bytes

\* The storage check of a chunk of length len against the budget.
StorageExceeded(storage, len) == storage + len > max_storage_bytes

\* try_parse_mp4_in_blocking_thread on the first n bytes of the file of id:
\* whether the parser finds the metadata in them.
Parses(id, n) == n >= MoovAt(id)

\* update_metadata: the record gets the file path and the parsed duration.
update_metadata(d, id, file_path) ==
    IF id \in DOMAIN d
    THEN [d EXCEPT ![id].local_path = file_path,
                   ![id].length_seconds = Some(DurationOf(id))]
    ELSE d

\* download_video_progressive up to the status check: the GET fails (send
\* error or non-2xx status) and the error is returned.
task_get_fails(t) ==
    /\ tasks[t].pc = "get"
    /\ tasks' = [tasks EXCEPT ![t].pc = "failed"]
    /\ UNCHANGED <<discovered, download_queue, playlist, current_storage_bytes,
                   current_index, disk, next_path, pc,
                   stopped, ranker_vars, bridge_vars,
                   discovery_vars, lock_vars>>

\* The GET succeeds: the Content-Length the response reports is stored in
\* the record, then a fresh file path is made up and stored in the record.
task_get_succeeds(t) ==
    /\ tasks[t].pc = "get"
    /\ next_path <= MaxPaths
    /\ LET id == tasks[t].video.id
       IN  discovered' = IF id \in DOMAIN discovered
                         THEN [discovered EXCEPT
                                 ![id].content_length = Some(SizeOf(id)),
                                 ![id].local_path = Some(next_path)]
                         ELSE discovered
    /\ tasks' = [tasks EXCEPT ![t].pc = "create", ![t].file_path = Some(next_path)]
    /\ next_path' = next_path + 1
    /\ UNCHANGED <<download_queue, playlist, current_storage_bytes, current_index,
                   disk, pc,
                   stopped, ranker_vars, bridge_vars,
                   discovery_vars, lock_vars>>

\* File::create: the (empty) file exists, or the call fails.
task_create(t, ok) ==
    /\ tasks[t].pc = "create"
    /\ IF ok
       THEN /\ disk' = [disk EXCEPT ![Unwrap(tasks[t].file_path)] = Some(0)]
            /\ tasks' = [tasks EXCEPT ![t].pc = "recv"]
       ELSE /\ tasks' = [tasks EXCEPT ![t].pc = "failed"]
            /\ UNCHANGED disk
    /\ UNCHANGED <<discovered, download_queue, playlist, current_storage_bytes,
                   current_index, next_path, pc,
                   stopped, ranker_vars, bridge_vars,
                   discovery_vars, lock_vars>>

\* resp.chunk() delivers a chunk of length len; the storage check and the
\* increment are one critical section under the accountant's mutex.
task_chunk(t, len) ==
    /\ tasks[t].pc = "recv"
    /\ tasks[t].downloaded_bytes + len <= SizeOf(tasks[t].video.id)
    /\ IF StorageExceeded(current_storage_bytes, len)
       THEN /\ tasks' = [tasks EXCEPT ![t].pc = "failed"]
            /\ UNCHANGED current_storage_bytes
       ELSE /\ current_storage_bytes' = current_storage_bytes + len
            /\ tasks' = [tasks EXCEPT ![t].pc = "write", ![t].chunk = len]
    /\ UNCHANGED <<discovered, download_queue, playlist, current_index, disk,
                   next_path, pc,
                   stopped, ranker_vars, bridge_vars,
                   discovery_vars, lock_vars>>

\* resp.chunk() returns an error.
task_read_error(t) ==
    /\ tasks[t].pc = "recv"
    /\ tasks' = [tasks EXCEPT ![t].pc = "failed"]
    /\ UNCHANGED <<discovered, download_queue, playlist, current_storage_bytes,
                   current_index, disk, next_path, pc,
                   stopped, ranker_vars, bridge_vars,
                   discovery_vars, lock_vars>>

\* file.write_all fails: the error is returned.
task_write_fails(t) ==
    /\ tasks[t].pc = "write"
    /\ tasks' = [tasks EXCEPT ![t].pc = "failed"]
    /\ UNCHANGED <<discovered, download_queue, playlist, current_storage_bytes,
                   current_index, disk, next_path, pc,
                   stopped, ranker_vars, bridge_vars,
                   discovery_vars, lock_vars>>

\* The chunk is written (a file removed meanwhile stays removed: the task
\* writes to its open handle), the record's progress is updated, and, while
\* no metadata has been extracted, the bytes seen so far are parsed.
task_write(t) ==
    /\ tasks[t].pc = "write"
    /\ LET id == tasks[t].video.id
           path == Unwrap(tasks[t].file_path)
           downloaded_bytes == tasks[t].downloaded_bytes + tasks[t].chunk
           parsed == ~tasks[t].metadata_extracted /\ Parses(id, downloaded_bytes)
           progress ==
               IF id \in DOMAIN discovered
               THEN [discovered EXCEPT
                       ![id].downloaded_bytes = downloaded_bytes,
                       ![id].content_length =
                           IF ~IsSome(@) THEN Some(SizeOf(id)) ELSE @]
               ELSE discovered
       IN  /\ disk' = IF IsSome(disk[path])
                      THEN [disk EXCEPT ![path] = Some(Unwrap(@) + tasks[t].chunk)]
                      ELSE disk
           /\ discovered' = IF parsed
                            THEN update_metadata(progress, id, tasks[t].file_path)
                            ELSE progress
           /\ tasks' = [tasks EXCEPT ![t].pc = "recv",
                                     ![t].downloaded_bytes = downloaded_bytes,
                                     ![t].chunk = 0,
                                     ![t].metadata_extracted = @ \/ parsed]
    /\ UNCHANGED <<download_queue, playlist, current_storage_bytes, current_index,
                   next_path, pc,
                   stopped, ranker_vars, bridge_vars,
                   discovery_vars, lock_vars>>

\* resp.chunk() returns None, the body being complete; then file.flush
\* fails and the error is returned.
task_flush_fails(t) ==
    /\ tasks[t].pc = "recv"
    /\ tasks[t].downloaded_bytes = SizeOf(tasks[t].video.id)
    /\ tasks' = [tasks EXCEPT ![t].pc = "failed"]
    /\ UNCHANGED <<discovered, download_queue, playlist, current_storage_bytes,
                   current_index, disk, next_path, pc,
                   stopped, ranker_vars, bridge_vars,
                   discovery_vars, lock_vars>>

\* resp.chunk() returns None, the body being complete: the file is flushed
\* and closed, the whole buffer is parsed if no metadata was extracted
\* before, and the record's downloading flag is cleared.
task_finish(t) ==
    /\ tasks[t].pc = "recv"
    /\ tasks[t].downloaded_bytes = SizeOf(tasks[t].video.id)
    /\ LET id == tasks[t].video.id
           parsed == ~tasks[t].metadata_extracted
                         /\ Parses(id, tasks[t].downloaded_bytes)
           with_metadata == IF parsed
                            THEN update_metadata(discovered, id, tasks[t].file_path)
                            ELSE discovered
       IN  discovered' = IF id \in DOMAIN with_metadata
                         THEN [with_metadata EXCEPT ![id].downloading = FALSE]
                         ELSE with_metadata
    /\ tasks' = [tasks EXCEPT ![t].pc = "ok"]
    /\ UNCHANGED <<download_queue, playlist, current_storage_bytes, current_index,
                   disk, next_path, pc,
                   stopped, ranker_vars, bridge_vars,
                   discovery_vars, lock_vars>>

\* An Ok arm that adds the table's record as it is at completion, not the
\* clone the task was started with.
task_completed_from_table(t) ==
    /\ tasks[t].pc = "ok"
    /\ download_queue' = RemoveFirstId(download_queue, tasks[t].video.id)
    /\ playlist' = PlaylistAdd(playlist, Clone(discovered[tasks[t].video.id]))
    /\ tasks' = [tasks EXCEPT ![t] = FreeTask]
    /\ stopped' = stopped \ {t}
    /\ UNCHANGED <<discovered, current_storage_bytes, current_index, disk, next_path,
                   pc, ranker_vars, bridge_vars,
                   discovery_vars, lock_vars>>

\* The spawned task's Ok arm: the queue entry is removed and the clone the
\* task was started with is added to the playlist.
task_completed(t) ==
    /\ tasks[t].pc = "ok"
    /\ download_queue' = RemoveFirstId(download_queue, tasks[t].video.id)
    /\ playlist' = PlaylistAdd(playlist, tasks[t].video)
    /\ tasks' = [tasks EXCEPT ![t] = FreeTask]
    /\ stopped' = stopped \ {t}
    /\ UNCHANGED <<discovered, current_storage_bytes, current_index, disk, next_path,
                   pc, ranker_vars, bridge_vars,
                   discovery_vars, lock_vars>>

\* An Err arm that clears the record's flag and leaves the queue alone.
task_failed_keeping_queue(t) ==
    /\ tasks[t].pc = "failed"
    /\ LET id == tasks[t].video.id
       IN  discovered' = IF id \in DOMAIN discovered
                         THEN [discovered EXCEPT ![id].downloading = FALSE]
                         ELSE discovered
    /\ tasks' = [tasks EXCEPT ![t] = FreeTask]
    /\ stopped' = stopped \ {t}
    /\ UNCHANGED <<download_queue, playlist, current_storage_bytes, current_index,
                   disk, next_path, pc, ranker_vars, bridge_vars,
                   discovery_vars, lock_vars>>

\* An Err arm that gives the bytes of the failed download back to the
\* storage counter.
task_failed_refunding(t) ==
    /\ tasks[t].pc = "failed"
    /\ LET id == tasks[t].video.id
       IN  /\ discovered' = IF id \in DOMAIN discovered
                            THEN [discovered EXCEPT ![id].downloading = FALSE]
                            ELSE discovered
           /\ download_queue' = RemoveFirstId(download_queue, id)
    /\ current_storage_bytes' = current_storage_bytes - tasks[t].downloaded_bytes
    /\ tasks' = [tasks EXCEPT ![t] = FreeTask]
    /\ stopped' = stopped \ {t}
    /\ UNCHANGED <<playlist, current_index, disk, next_path,
                   pc, ranker_vars, bridge_vars,
                   discovery_vars, lock_vars>>

\* The spawned task's Err arm: the record's flag is cleared and the queue
\* entry is removed.
task_failed(t) ==
    /\ tasks[t].pc = "failed"
    /\ LET id == tasks[t].video.id
       IN  /\ discovered' = IF id \in DOMAIN discovered
                            THEN [discovered EXCEPT ![id].downloading = FALSE]
                            ELSE discovered
           /\ download_queue' = RemoveFirstId(download_queue, id)
    /\ tasks' = [tasks EXCEPT ![t] = FreeTask]
    /\ stopped' = stopped \ {t}
    /\ UNCHANGED <<playlist, current_storage_bytes, current_index, disk, next_path,
                   pc, ranker_vars, bridge_vars,
                   discovery_vars, lock_vars>>

\* ------------------------------------------------------------ specification
Next ==
    \/ \E batch \in SUBSET Ids : discovery_new_videos(batch)
    \/ update_download_queue
    \/ enforce_behind_limit
    \/ download_videos
    \/ \E index \in 0..MaxIndex : set_index(index)
    \/ \E video_id \in Ids : stop_download(video_id)
    \/ \E t \in Tasks :
           \/ task_get_fails(t)
           \/ task_get_succeeds(t)
           \/ \E ok \in BOOLEAN : task_create(t, ok)
           \/ \E len \in 1..MaxChunkLen : task_chunk(t, len)
           \/ task_read_error(t)
           \/ task_write_fails(t)
           \/ task_write(t)
           \/ task_flush_fails(t)
           \/ task_finish(t)
           \/ task_completed(t)
           \/ task_failed(t)

Spec == Init /\ [][Next]_vars

\* ------------------------------------------------------------ the ranker alone
\* sort_videos_for_download as a function of its arguments: the candidate
\* list and the two targets are drawn from the sets below, and the function
\* is called on the list, and again on its own result.
MaxCandidates == 5
MaxTva == 3
MaxTma == 1
MaxRankCalls == 2

\* A candidate as update_download_queue hands it to the ranker: a record
\* without a local file, with the content length and the duration the table
\* knows of it.
Candidate(id, content_length, length_seconds) ==
    [from_nostr_video(id) EXCEPT !.content_length = content_length,
                                 !.length_seconds = length_seconds]

\* Five candidates of 100 B, 10 GB, 200 B, 10 GB and 150 B with scores 1, 9,
\* 2, 8 and 3 and unknown durations (see ScoreOf).  10 GB is more than the
\* integers of the model checker hold; the ranker only compares lengths,
\* and 10^9, which is less than U64Max, stands for 10 GB.
CandA == Candidate(1, Some(100), None)
CandB == Candidate(9, Some(1000000000), None)
CandC == Candidate(2, Some(200), None)
CandD == Candidate(8, Some(1000000000), None)
CandE == Candidate(3, Some(150), None)
\* Candidates whose duration is known (evicted earlier), one of them with
\* an unknown content length.
CandF == Candidate(4, Some(50), Some(60))
CandG == Candidate(5, None, Some(30))
\* Candidates with the score of G: one with G's unknown content length, one
\* with a known one.
CandH == Candidate(6, None, None)
CandI == Candidate(7, Some(100), None)

RankPool == {CandA, CandB, CandC, CandD, CandE, CandF, CandG, CandH, CandI}

RankInit ==
    /\ ManagerInit /\ BridgeStarted /\ DiscoveryInit /\ LocksIdle
    /\ \E n \in 0..MaxCandidates :
          \E list \in [1..n -> RankPool] :
              /\ \A i, j \in 1..n : i # j => list[i] # list[j]
              /\ videos_in = list
              /\ videos_vec = list
    /\ tva_arg \in 0..MaxTva
    /\ tma_arg \in 0..MaxTma
    /\ rank_calls = 0

\* One call sort_videos_for_download(&mut videos, tva, tma).
rank ==
    /\ rank_calls < MaxRankCalls
    /\ videos_vec' = sort_videos_for_download(videos_vec, tva_arg, tma_arg)
    /\ rank_calls' = rank_calls + 1
    /\ UNCHANGED <<discovered, download_queue, playlist, current_storage_bytes,
                   current_index, disk, next_path, tasks, pc, stopped,
                   videos_in, tva_arg, tma_arg, bridge_vars,
                   discovery_vars, lock_vars>>

RankNext == rank

RankSpec == RankInit /\ [][RankNext]_vars

\* ------------------------------------------- the queue of a larger table
\* The discovered table with videos of equal score and equal content length:
\* videos_in lists the records of the table in the order discovery_new_videos
\* inserted them (the HashMap does not keep this order), videos_vec is the
\* download queue, rank_calls tells whether update_download_queue has run.
MaxIngested == 3

QueueInit ==
    /\ ManagerInit /\ BridgeStarted /\ DiscoveryInit /\ LocksIdle
    /\ videos_in = <<>>
    /\ videos_vec = <<>>
    /\ tva_arg = target_videos_ahead
    /\ tma_arg = target_minutes_ahead
    /\ rank_calls = 0

\* discovered.insert(vid.id.clone(), vid) of a video the table does not hold.
discovered_insert(vid) ==
    /\ Len(videos_in) < MaxIngested
    /\ \A i \in DOMAIN videos_in : videos_in[i].id # vid.id
    /\ videos_in' = Append(videos_in, vid)
    /\ UNCHANGED <<discovered, download_queue, playlist, current_storage_bytes,
                   current_index, disk, next_path, tasks, pc, stopped,
                   videos_vec, tva_arg, tma_arg, rank_calls, bridge_vars,
                   discovery_vars, lock_vars>>

\* update_download_queue on this table: discovered_map.values() hands the
\* records out in the order of the HashMap, the records without a local file
\* are ranked with the targets of the state and replace the queue.
requeue ==
    /\ \E o \in Orders(DOMAIN videos_in) :
         LET all_videos == [i \in 1..Len(o) |-> videos_in[o[i]]]
             candidates == SelectSeq(all_videos, LAMBDA v : ~has_local_file(v))
         IN  videos_vec' = sort_videos_for_download(candidates, tva_arg, tma_arg)
    /\ rank_calls' = 1
    /\ UNCHANGED <<discovered, download_queue, playlist, current_storage_bytes,
                   current_index, disk, next_path, tasks, pc, stopped,
                   videos_in, tva_arg, tma_arg, bridge_vars,
                   discovery_vars, lock_vars>>

QueueNext ==
    \/ \E vid \in RankPool : discovered_insert(vid)
    \/ requeue

QueueSpec == QueueInit /\ [][QueueNext]_vars

\* ------------------------------------------------- the foreign boundary
\* The playlist of the AppState GLOBAL_STATE holds, with the calls that
\* reach it (Playlist::add from the completion handler of a download, the
\* cursor moves, ffi_get_discovered_videos), and ffi_start_server.
MaxStarts == 3
MaxAdds == 3
MaxDelivered == 4

\* Before the first ffi_start_server.
BridgeInit ==
    /\ ManagerInit /\ RankerIdle /\ DiscoveryInit /\ LocksIdle
    /\ GLOBAL_STATE = None /\ app_states = 0 /\ schedulers = 0 /\ servers = 0
    /\ address = None
    /\ added = <<>>
    /\ delivered = <<>>

\* ffi_start_server.  start_axum_server fails when ContentDiscovery::new
\* does (ok = FALSE), before anything is created, and the error text is
\* returned.  Otherwise it creates an AppState, spawns a DownloadManager::run
\* loop and an HTTP server task for it and returns addr_str; GLOBAL_STATE.set
\* keeps the AppState only when the cell is empty.
ffi_start_server(ok) ==
    /\ app_states < MaxStarts
    /\ IF ok
       THEN /\ app_states' = app_states + 1
            /\ schedulers' = schedulers + 1
            /\ servers' = servers + 1
            /\ GLOBAL_STATE' = IF IsSome(GLOBAL_STATE) THEN GLOBAL_STATE
                               ELSE Some(app_states + 1)
            /\ address' = Some(addr_str)
       ELSE /\ address' = Some("Error starting server")
            /\ UNCHANGED <<app_states, schedulers, servers, GLOBAL_STATE>>
    /\ UNCHANGED <<discovered, download_queue, playlist, current_storage_bytes,
                   current_index, disk, next_path, tasks, pc, stopped,
                   ranker_vars, added, delivered,
                   discovery_vars, lock_vars>>

\* playlist.add(video_clone) as the completion handler of a download calls
\* it: video is the clone taken from the queue when the download started.
Playlist_add(video) ==
    /\ IsSome(GLOBAL_STATE)
    /\ Len(added) < MaxAdds
    /\ playlist' = PlaylistAdd(playlist, video)
    /\ added' = Append(added, video.id)
    /\ UNCHANGED <<discovered, download_queue, current_storage_bytes,
                   current_index, disk, next_path, tasks, pc, stopped,
                   ranker_vars, GLOBAL_STATE, app_states, schedulers, servers,
                   address, delivered,
                   discovery_vars, lock_vars>>

Playlist_next ==
    /\ IsSome(GLOBAL_STATE)
    /\ playlist' = PlaylistNext(playlist)
    /\ UNCHANGED <<discovered, download_queue, current_storage_bytes,
                   current_index, disk, next_path, tasks, pc, stopped,
                   ranker_vars, bridge_vars,
                   discovery_vars, lock_vars>>

Playlist_prev ==
    /\ IsSome(GLOBAL_STATE)
    /\ playlist' = PlaylistPrev(playlist)
    /\ UNCHANGED <<discovered, download_queue, current_storage_bytes,
                   current_index, disk, next_path, tasks, pc, stopped,
                   ranker_vars, bridge_vars,
                   discovery_vars, lock_vars>>

\* ffi_get_discovered_videos: new_content of the playlist of the AppState
\* in GLOBAL_STATE (the call panics when the cell is empty), every entry
\* turned into an FfiVideoDownload.
ffi_get_discovered_videos ==
    /\ IsSome(GLOBAL_STATE)
    /\ LET got == new_content(playlist)
       IN  /\ Len(delivered) + Len(got.result) <= MaxDelivered
           /\ playlist' = got.playlist
           /\ delivered' = delivered \o
                  [k \in 1..Len(got.result) |-> FfiVideoDownload(got.result[k])]
    /\ UNCHANGED <<discovered, download_queue, current_storage_bytes,
                   current_index, disk, next_path, tasks, pc, stopped,
                   ranker_vars, GLOBAL_STATE, app_states, schedulers, servers,
                   address, added,
                   discovery_vars, lock_vars>>

BridgeNext ==
    \/ \E ok \in BOOLEAN : ffi_start_server(ok)
    \/ \E id \in Ids : Playlist_add(Clone(from_nostr_video(id)))
    \/ Playlist_next
    \/ Playlist_prev
    \/ ffi_get_discovered_videos

BridgeSpec == BridgeInit /\ [][BridgeNext]_vars

\* ------------------------------------------------------- content discovery
\* The background task of ContentDiscovery::new takes one event at a time
\* from the relays, parses it into videos, looks up the author of each and
\* sends each into the channel; fetch_new_videos drains the channel.
MaxVariants == 2
MaxSent == 2

\* The authors (bech32 keys) events are signed by.
Authors == {"npub1a", "npub1b"}

\* Url::parse of the strings the events carry: the scheme and the host of
\* the parsed url (host_str().unwrap_or("")), or None when parsing fails.
UrlParse(url) ==
    CASE url = "https://a.example/v.mp4" ->
             Some([scheme |-> "https", host |-> "a.example"])
      [] url = "http://a.example/v.mp4" ->
             Some([scheme |-> "http", host |-> "a.example"])
      [] url = "ftp://a.example/v.mp4" ->
             Some([scheme |-> "ftp", host |-> "a.example"])
      [] url = "file:///v.mp4" -> Some([scheme |-> "file", host |-> ""])
      [] OTHER -> None

is_valid_http_url(url) ==
    IF IsSome(UrlParse(url))
    THEN LET parsed == Unwrap(UrlParse(url))
         IN  parsed.scheme \in {"http", "https"} /\ parsed.host # ""
    ELSE FALSE

\* An imeta tag is the strings after "imeta", each given as its
\* whitespace-separated parts (split_whitespace): a key and at most one word.
ImetaTag(chunks) == [name |-> "imeta", chunks |-> chunks]

TagPool ==
    {ImetaTag(<<<<"x", "h1">>, <<"url", "https://a.example/v.mp4">>>>),
     ImetaTag(<<<<"url", "http://a.example/v.mp4">>, <<"x", "h2">>>>),
     ImetaTag(<<<<"x">>, <<"url", "https://a.example/v.mp4">>>>),
     ImetaTag(<<<<"url", "https://a.example/v.mp4">>>>),
     ImetaTag(<<<<"x", "h1">>, <<"url", "ftp://a.example/v.mp4">>>>),
     ImetaTag(<<<<"x", "h2">>, <<"url", "file:///v.mp4">>>>),
     ImetaTag(<<<<"x", "h1">>, <<>>, <<"url", "v.mp4">>>>),
     ImetaTag(<<<<"x", "h2">>, <<"m", "video/mp4">>>>),
     [name |-> "t", chunks |-> <<<<"x", "h1">>, <<"url", "https://a.example/v.mp4">>>>]}

\* The events: an author and the tags.
Events ==
    {[pubkey |-> a, tags |-> ts] :
        a \in Authors,
        ts \in UNION {[1..n -> TagPool] : n \in 1..MaxVariants}}

\* fields.get(key).and_then(|v| v.first()).cloned() from chunk i on: the
\* value of the first chunk whose first part is the key, which is the rest
\* of the parts joined ("" when there is none); chunks without parts are
\* skipped.
RECURSIVE FirstField(_, _, _)
FirstField(chunks, key, i) ==
    IF i > Len(chunks) THEN None
    ELSE LET parts == chunks[i]
         IN  IF parts # <<>> /\ parts[1] = key
             THEN Some(IF Len(parts) = 1 THEN "" ELSE parts[2])
             ELSE FirstField(chunks, key, i + 1)

\* parse_video_variants from tag i on: a VideoVariant for every imeta tag.
RECURSIVE VariantsFrom(_, _)
VariantsFrom(ev, i) ==
    IF i > Len(ev.tags) THEN <<>>
    ELSE (IF ev.tags[i].name = "imeta"
          THEN <<[hash |-> FirstField(ev.tags[i].chunks, "x", 1),
                  url |-> FirstField(ev.tags[i].chunks, "url", 1)]>>
          ELSE <<>>)
         \o VariantsFrom(ev, i + 1)

parse_video_variants(ev) == VariantsFrom(ev, 1)

\* The Video parse_event_as_video makes of a variant of an event: its user
\* has the author's key and neither name nor picture.
VideoOf(ev, variant) ==
    [id |-> Unwrap(variant.hash),
     user |-> [npub |-> Some(ev.pubkey), name |-> None,
               profile_picture |-> None],
     url |-> Unwrap(variant.url)]

\* parse_event_as_video over the variants from i on: a Video for every
\* variant with Some hash and Some url whose url is valid.
RECURSIVE ParseFrom(_, _, _)
ParseFrom(ev, variants, i) ==
    IF i > Len(variants) THEN <<>>
    ELSE (IF IsSome(variants[i].hash) /\ IsSome(variants[i].url)
                /\ is_valid_http_url(Unwrap(variants[i].url))
          THEN <<VideoOf(ev, variants[i])>>
          ELSE <<>>)
         \o ParseFrom(ev, variants, i + 1)

parse_event_as_video(ev) == ParseFrom(ev, parse_video_variants(ev), 1)

\* The UserData parse_user_metadata makes of the metadata event of an author.
UserDataOf(author) ==
    [npub |-> None, name |-> Some(<<"name", author>>),
     profile_picture |-> Some(<<"picture", author>>)]

\* maybe_fetch_and_set_metadata(client, npub_str, known_authors, video): the
\* video it was given and the cache afterwards.  A cached author is set at
\* once; otherwise the metadata is fetched and, when that yields the
\* author's UserData (found), it is cached and set.
maybe_fetch_and_set_metadata(npub_str, cache, video, found) ==
    IF npub_str \in DOMAIN cache
    THEN [video |-> [video EXCEPT !.user = cache[npub_str]], cache |-> cache]
    ELSE IF found
    THEN [video |-> [video EXCEPT !.user = UserDataOf(npub_str)],
          cache |-> [a \in DOMAIN cache \cup {npub_str} |->
                        IF a = npub_str THEN UserDataOf(npub_str) ELSE cache[a]]]
    ELSE [video |-> video, cache |-> cache]

\* A receiver that hands out the newest message first.
try_recv_newest(ch) ==
    [video |-> ch[Len(ch)], rest |-> SubSeq(ch, 1, Len(ch) - 1)]

\* UnboundedReceiver::try_recv on a channel that is not empty: the oldest
\* message, and the channel without it.
try_recv(ch) == [video |-> Head(ch), rest |-> Tail(ch)]

\* notifications.recv() hands the background task an event of the video
\* kinds; it is parsed.
notification(ev) ==
    /\ event = None
    /\ Len(sent) + Len(parse_event_as_video(ev)) <= MaxSent
    /\ event' = Some(ev)
    /\ pending' = parse_event_as_video(ev)
    /\ UNCHANGED <<known_authors, channel, sent, fetch_result, batches,
                   discovered, download_queue, playlist, current_storage_bytes,
                   current_index, disk, next_path, tasks, pc, stopped,
                   ranker_vars, bridge_vars, lock_vars>>

\* The loop body for the next video of the event: the author is looked up
\* for a clone of the video (&mut video.clone()), which is dropped, and the
\* video itself is sent.
enrich_and_send(found) ==
    /\ IsSome(event)
    /\ pending # <<>>
    /\ LET video == Head(pending)
           enriched == maybe_fetch_and_set_metadata(
                           Unwrap(video.user.npub), known_authors, video, found)
       IN  /\ known_authors' = enriched.cache
           /\ channel' = Append(channel, video)
           /\ sent' = Append(sent, video)
    /\ pending' = Tail(pending)
    /\ UNCHANGED <<event, fetch_result, batches,
                   discovered, download_queue, playlist, current_storage_bytes,
                   current_index, disk, next_path, tasks, pc, stopped,
                   ranker_vars, bridge_vars, lock_vars>>

\* The videos of the event are all sent: back to notifications.recv().
event_done ==
    /\ IsSome(event)
    /\ pending = <<>>
    /\ event' = None
    /\ UNCHANGED <<pending, known_authors, channel, sent, fetch_result, batches,
                   discovered, download_queue, playlist, current_storage_bytes,
                   current_index, disk, next_path, tasks, pc, stopped,
                   ranker_vars, bridge_vars, lock_vars>>

\* fetch_new_videos: a new result vector, then try_recv until the channel is
\* empty, then the result is returned.
fetch_new_videos_begin ==
    /\ fetch_result = None
    /\ fetch_result' = Some(<<>>)
    /\ UNCHANGED <<event, pending, known_authors, channel, sent, batches,
                   discovered, download_queue, playlist, current_storage_bytes,
                   current_index, disk, next_path, tasks, pc, stopped,
                   ranker_vars, bridge_vars, lock_vars>>

fetch_new_videos_recv ==
    /\ IsSome(fetch_result)
    /\ channel # <<>>
    /\ fetch_result' = Some(Append(Unwrap(fetch_result), try_recv(channel).video))
    /\ channel' = try_recv(channel).rest
    /\ UNCHANGED <<event, pending, known_authors, sent, batches,
                   discovered, download_queue, playlist, current_storage_bytes,
                   current_index, disk, next_path, tasks, pc, stopped,
                   ranker_vars, bridge_vars, lock_vars>>

fetch_new_videos_return ==
    /\ IsSome(fetch_result)
    /\ channel = <<>>
    /\ batches' = batches \o Unwrap(fetch_result)
    /\ fetch_result' = None
    /\ UNCHANGED <<event, pending, known_authors, channel, sent,
                   discovered, download_queue, playlist, current_storage_bytes,
                   current_index, disk, next_path, tasks, pc, stopped,
                   ranker_vars, bridge_vars, lock_vars>>

DiscoveryNext ==
    \/ \E ev \in Events : notification(ev)
    \/ \E found \in BOOLEAN : enrich_and_send(found)
    \/ event_done
    \/ fetch_new_videos_begin
    \/ fetch_new_videos_recv
    \/ fetch_new_videos_return

DiscoverySpec == Init /\ [][DiscoveryNext]_vars

\* ------------------------------------------------------------ mutexes
\* What each code path does with the mutexes of the shared state: every
\* thread runs one code path at a time, a sequence of steps that lock a
\* mutex (lock().await: the thread waits while another holds it), unlock
\* it (the guard is dropped), await something else, or spawn a task.
Lock(m) == [op |-> "lock", m |-> m]
Unlock(m) == [op |-> "unlock", m |-> m]
Await(what) == [op |-> "await", m |-> what]
Spawn == [op |-> "spawn", m |-> "download_video_progressive"]

discovery_new_videos_steps ==
    <<Await("fetch_content_lengths_in_parallel"),
      Lock("discovered_videos"), Unlock("discovered_videos")>>

update_download_queue_steps ==
    <<Lock("discovered_videos"), Unlock("discovered_videos"),
      Lock("download_queue"), Unlock("download_queue")>>

\* An enforce_behind_limit that removes the files before it drops the table
\* guard.
enforce_behind_limit_removing_under_guard_steps ==
    <<Lock("current_index"), Unlock("current_index"),
      Lock("discovered_videos"), Await("remove_file"),
      Unlock("discovered_videos")>>

enforce_behind_limit_steps ==
    <<Lock("current_index"), Unlock("current_index"),
      Lock("discovered_videos"), Unlock("discovered_videos"),
      Await("remove_file")>>

\* download_videos starting n downloads.
RECURSIVE StartSteps(_)
StartSteps(n) ==
    IF n = 0 THEN <<>>
    ELSE <<Lock("discovered_videos"), Unlock("discovered_videos"),
           Lock("download_queue"), Unlock("download_queue"), Spawn>>
         \o StartSteps(n - 1)

download_videos_steps(n) ==
    <<Lock("download_queue"), Unlock("download_queue")>> \o StartSteps(n)

\* One round of the loop of run, starting n downloads.
run_steps(n) ==
    discovery_new_videos_steps \o update_download_queue_steps
        \o enforce_behind_limit_steps \o download_videos_steps(n)
        \o <<Await("sleep")>>

\* stop_download: the queue guard lives to the end of the function, the
\* table guard to the end of the branch that found the id.  (The removed
\* entry is a queue entry and has no local_path: no file is removed.)
stop_download_steps(found) ==
    IF found
    THEN <<Lock("download_queue"), Lock("discovered_videos"),
           Unlock("discovered_videos"), Unlock("download_queue")>>
    ELSE <<Lock("download_queue"), Unlock("download_queue")>>

set_index_steps == <<Lock("current_index"), Unlock("current_index")>>

stream_video_steps ==
    <<Lock("discovered_videos"), Unlock("discovered_videos"),
      Await("metadata"), Await("File::open")>>

\* The Err arm and the Ok arm of the spawned task.
err_arm_steps ==
    <<Lock("discovered_videos"), Lock("download_queue"),
      Unlock("download_queue"), Unlock("discovered_videos")>>

ok_arm_steps ==
    <<Lock("download_queue"), Lock("playlist"),
      Unlock("playlist"), Unlock("download_queue")>>

\* download_video_progressive up to its chunk loop, one chunk that is
\* accounted, written and recorded, and the end after the loop.
progressive_open_steps ==
    <<Await("send"),
      Lock("discovered_videos"), Unlock("discovered_videos"),
      Lock("discovered_videos"), Unlock("discovered_videos"),
      Await("File::create")>>

progressive_budget_steps ==
    <<Await("chunk"),
      Lock("current_storage_bytes"), Unlock("current_storage_bytes")>>

progressive_chunk_steps ==
    progressive_budget_steps
        \o <<Await("write_all"),
             Lock("discovered_videos"), Unlock("discovered_videos")>>

progressive_close_steps ==
    <<Await("chunk"), Await("flush"),
      Lock("discovered_videos"), Unlock("discovered_videos")>>

\* The code paths, by name.
Steps(name) ==
    CASE name = "run" -> run_steps(0)
      [] name = "run starting a download" -> run_steps(1)
      [] name = "stop_download" -> stop_download_steps(TRUE)
      [] name = "stop_download of an unknown id" -> stop_download_steps(FALSE)
      [] name = "set_index" -> set_index_steps
      [] name = "stream_video" -> stream_video_steps
      [] name = "download failing at send" -> <<Await("send")>> \o err_arm_steps
      [] name = "download exceeding the budget" ->
             progressive_open_steps \o progressive_budget_steps \o err_arm_steps
      [] name = "download" ->
             progressive_open_steps \o progressive_chunk_steps
                 \o progressive_close_steps \o ok_arm_steps
      [] OTHER -> <<>>

SchedulerPaths == {"run", "run starting a download"}
CallerPaths ==
    {"stop_download", "stop_download of an unknown id", "set_index", "stream_video"}
TaskPaths ==
    {"download failing at send", "download exceeding the budget", "download"}

TaskThreads == {<<"task", t>> : t \in 1..NumTasks}

Running(th) == lpath[th] # "idle"

\* The step the thread is at; it is at the end of its path when there is none.
AtEnd(th) == lpc[th] > Len(Steps(lpath[th]))
NextStep(th) == Steps(lpath[th])[lpc[th]]

Holds(th, m) == \E i \in DOMAIN held[th] : held[th][i] = m

Without(h, m) == SelectSeq(h, LAMBDA x : x # m)

\* The scheduler starts a round of its loop, or a caller calls a function.
\* A round that starts a download needs a task that is not running.
begin(th, name) ==
    /\ ~Running(th)
    /\ \/ th = <<"scheduler", 0>> /\ name \in SchedulerPaths
       \/ th = <<"caller", 0>> /\ name \in CallerPaths
    /\ name = "run starting a download" => \E t \in TaskThreads : ~Running(t)
    /\ lpath' = [lpath EXCEPT ![th] = name]
    /\ lpc' = [lpc EXCEPT ![th] = 1]
    /\ UNCHANGED <<held, discovered, download_queue, playlist,
                   current_storage_bytes, current_index, disk, next_path, tasks,
                   pc, stopped, ranker_vars, bridge_vars, discovery_vars>>

\* lock().await returns: no thread holds the mutex.
acquire(th) ==
    /\ Running(th) /\ ~AtEnd(th)
    /\ NextStep(th).op = "lock"
    /\ \A other \in Threads : ~Holds(other, NextStep(th).m)
    /\ held' = [held EXCEPT ![th] = Append(held[th], NextStep(th).m)]
    /\ lpc' = [lpc EXCEPT ![th] = lpc[th] + 1]
    /\ UNCHANGED <<lpath, discovered, download_queue, playlist,
                   current_storage_bytes, current_index, disk, next_path, tasks,
                   pc, stopped, ranker_vars, bridge_vars, discovery_vars>>

\* The guard is dropped.
release(th) ==
    /\ Running(th) /\ ~AtEnd(th)
    /\ NextStep(th).op = "unlock"
    /\ held' = [held EXCEPT ![th] = Without(held[th], NextStep(th).m)]
    /\ lpc' = [lpc EXCEPT ![th] = lpc[th] + 1]
    /\ UNCHANGED <<lpath, discovered, download_queue, playlist,
                   current_storage_bytes, current_index, disk, next_path, tasks,
                   pc, stopped, ranker_vars, bridge_vars, discovery_vars>>

\* An await of something that is not a mutex returns.
await(th) ==
    /\ Running(th) /\ ~AtEnd(th)
    /\ NextStep(th).op = "await"
    /\ lpc' = [lpc EXCEPT ![th] = lpc[th] + 1]
    /\ UNCHANGED <<lpath, held, discovered, download_queue, playlist,
                   current_storage_bytes, current_index, disk, next_path, tasks,
                   pc, stopped, ranker_vars, bridge_vars, discovery_vars>>

\* tokio::spawn: a task starts on one of the paths a download can take.
spawn(th, t, name) ==
    /\ Running(th) /\ ~AtEnd(th)
    /\ NextStep(th).op = "spawn"
    /\ t \in TaskThreads /\ ~Running(t)
    /\ name \in TaskPaths
    /\ lpath' = [lpath EXCEPT ![t] = name]
    /\ lpc' = [lpc EXCEPT ![th] = lpc[th] + 1, ![t] = 1]
    /\ UNCHANGED <<held, discovered, download_queue, playlist,
                   current_storage_bytes, current_index, disk, next_path, tasks,
                   pc, stopped, ranker_vars, bridge_vars, discovery_vars>>

\* The code path returns.
return(th) ==
    /\ Running(th) /\ AtEnd(th)
    /\ lpath' = [lpath EXCEPT ![th] = "idle"]
    /\ lpc' = [lpc EXCEPT ![th] = 0]
    /\ UNCHANGED <<held, discovered, download_queue, playlist,
                   current_storage_bytes, current_index, disk, next_path, tasks,
                   pc, stopped, ranker_vars, bridge_vars, discovery_vars>>

LockNext ==
    \/ \E th \in Threads, name \in SchedulerPaths \cup CallerPaths : begin(th, name)
    \/ \E th \in Threads : acquire(th)
    \/ \E th \in Threads : release(th)
    \/ \E th \in Threads : await(th)
    \/ \E th \in Threads, t \in TaskThreads, name \in TaskPaths : spawn(th, t, name)
    \/ \E th \in Threads : return(th)

LockSpec == Init /\ [][LockNext]_vars

\* ------------------------------------------------------------ http handler
\* GET /video.mp4?index=n reads the shared state and the disk and changes
\* neither: its reply is a function of the state it runs in.
MaxRange == 3
MaxRequestIndex == 2

\* The two builds: with overflow checks (an overflow panics) and without
\* (it wraps).
OverflowChecks == BOOLEAN

\* a - b on u64: the difference, or a panic.
Sub(a, b, overflow_checks) ==
    IF a >= b THEN [panic |-> FALSE, value |-> a - b]
    ELSE IF overflow_checks THEN [panic |-> TRUE, value |-> 0]
    ELSE [panic |-> FALSE, value |-> (a - b) % U64Modulus]

\* a + b on u64: the sum, or a panic.
Add(a, b, overflow_checks) ==
    IF a + b < U64Modulus THEN [panic |-> FALSE, value |-> a + b]
    ELSE IF overflow_checks THEN [panic |-> TRUE, value |-> 0]
    ELSE [panic |-> FALSE, value |-> (a + b) % U64Modulus]

\* A part of the Range header around the '-': decimal digits, nothing, or
\* something else.
Digits(n) == [text |-> "digits", value |-> n]
EmptyPart == [text |-> "", value |-> 0]
OtherPart == [text |-> "x", value |-> 0]

\* str::parse::<u64>().
ParseU64(part) == IF part.text = "digits" THEN Some(part.value) ELSE None

\* The Range header: what it starts with and the parts split('-') makes of
\* the rest.
RangeHeader(prefix, parts) == [prefix |-> prefix, parts |-> parts]

RangeHeaders ==
    {RangeHeader("bytes=", <<Digits(a), Digits(b)>>) : a, b \in 0..MaxRange}
    \cup {RangeHeader("bytes=", <<Digits(a), EmptyPart>>) : a \in 0..MaxRange}
    \cup {RangeHeader("items=", <<Digits(0), Digits(1)>>),
          RangeHeader("bytes=", <<Digits(0)>>),
          RangeHeader("bytes=", <<Digits(0), Digits(1), Digits(2)>>),
          RangeHeader("bytes=", <<EmptyPart, Digits(1)>>),
          RangeHeader("bytes=", <<Digits(0), OtherPart>>)}

RangeResult(status, start, end) == [status |-> status, start |-> start, end |-> end]

parse_range_header(range, file_size, overflow_checks) ==
    IF range.prefix # "bytes=" THEN RangeResult("BAD_REQUEST", 0, 0)
    ELSE IF Len(range.parts) # 2 THEN RangeResult("BAD_REQUEST", 0, 0)
    ELSE IF ~IsSome(ParseU64(range.parts[1])) THEN RangeResult("BAD_REQUEST", 0, 0)
    ELSE LET start == Unwrap(ParseU64(range.parts[1]))
         IN  IF range.parts[2].text = ""
             THEN LET end == Sub(file_size, 1, overflow_checks)
                  IN  IF end.panic THEN RangeResult("panic", 0, 0)
                      ELSE RangeResult("Ok", start, end.value)
             ELSE IF ~IsSome(ParseU64(range.parts[2]))
             THEN RangeResult("BAD_REQUEST", 0, 0)
             ELSE RangeResult("Ok", start, Unwrap(ParseU64(range.parts[2])))

\* What the handler does: an error status or a panic, or a reply with the
\* file it reads, the Content-Range header (start, end, total) if any and
\* the number of bytes of the body.
Reply(status, path, content_range, body_len) ==
    [status |-> status, path |-> path, content_range |-> content_range,
     body_len |-> body_len]

Err(status) == Reply(status, None, None, 0)

\* The lists discovered_videos...to_vec() can be: the records of the table
\* in an order of the map's choosing.
TableLists ==
    {[k \in DOMAIN o |-> discovered[o[k]]] : o \in Orders(DOMAIN discovered)}

Min(a, b) == IF a <= b THEN a ELSE b

\* stream_video for the 0-based index, the list taken from the table and the
\* Range header (None when the request has none).
stream_video(index, list, range_header, overflow_checks) ==
    LET maybe_path == IF index < Len(list) THEN list[index + 1].local_path
                      ELSE None
    IN  IF ~IsSome(maybe_path) THEN Err("NOT_FOUND")
        ELSE LET path == Unwrap(maybe_path)
             IN  IF ~IsSome(disk[path]) THEN Err("NOT_FOUND")
                 ELSE LET file_size == Unwrap(disk[path])
                      IN  IF ~IsSome(range_header)
                          THEN Reply("OK", Some(path), None, file_size)
                          ELSE LET parsed == parse_range_header(
                                       Unwrap(range_header), file_size,
                                       overflow_checks)
                                   start == parsed.start
                                   end == Min(parsed.end, file_size - 1)
                                   diff == Sub(end, start, overflow_checks)
                                   chunk_size == Add(diff.value, 1, overflow_checks)
                               IN  IF parsed.status # "Ok" THEN Err(parsed.status)
                                   ELSE IF start >= file_size
                                   THEN Err("RANGE_NOT_SATISFIABLE")
                                   ELSE IF diff.panic \/ chunk_size.panic
                                   THEN Err("panic")
                                   ELSE Reply("PARTIAL_CONTENT", Some(path),
                                              Some(<<start, end, file_size>>),
                                              Min(chunk_size.value,
                                                  file_size - start))

\* ------------------------------------------------------------ properties
\* The tasks downloading id.
TasksOf(id) == {t \in Tasks : InFlight(t) /\ tasks[t].video.id = id}

\* The step in which the failure handler (the Err arm) of task t runs.
FailureHandled(t) == tasks[t].pc = "failed" /\ tasks'[t].pc = "free"

\* The step in which the completion handler (the Ok arm) of task t runs.
CompletionHandled(t) == tasks[t].pc = "ok" /\ tasks'[t].pc = "free"

\* The steps of the scheduler's tick.
IngestionStep == pc = "discovery_new_videos" /\ pc' = "update_download_queue"
QueueStep == pc = "update_download_queue" /\ pc' = "enforce_behind_limit"
EvictionStep == pc = "enforce_behind_limit" /\ pc' = "download_videos"

\* The state between two ticks: download_videos has returned (or no tick
\* has run yet).
TickBoundary == pc = "discovery_new_videos"

RECURSIVE SumFileLen(_)
SumFileLen(S) ==
    IF S = {} THEN 0
    ELSE LET i == CHOOSE j \in S : TRUE
         IN  FileLen(Unwrap(discovered[i].local_path)) + SumFileLen(S \ {i})

RECURSIVE SumDownloadedBytes(_)
SumDownloadedBytes(S) ==
    IF S = {} THEN 0
    ELSE LET i == CHOOSE j \in S : TRUE
         IN  discovered[i].downloaded_bytes + SumDownloadedBytes(S \ {i})

\* The ids of the playlist's entries, and the (0-based) position of id.
InPlaylist(id) == \E k \in DOMAIN playlist.items : playlist.items[k].id = id
PlaylistPosition(id) ==
    (CHOOSE k \in DOMAIN playlist.items : playlist.items[k].id = id) - 1

\* The known duration of the playlist entries at the (0-based) positions
\* from..(to - 1), as the table records it.
RECURSIVE DurationBetween(_, _)
DurationBetween(from, to) ==
    IF from >= to \/ from >= Len(playlist.items) THEN 0
    ELSE LET id == playlist.items[from + 1].id
         IN  (IF id \in DOMAIN discovered /\ IsSome(discovered[id].length_seconds)
              THEN Unwrap(discovered[id].length_seconds) ELSE 0)
             + DurationBetween(from + 1, to)

\* C1: Storage ceiling.  In every reachable state, whatever the interleaving
\* of the download tasks, current_storage_bytes <= max_storage_bytes (the
\* check of a chunk and the increment being one step under the accountant's
\* mutex).
C1_StorageCeiling == current_storage_bytes <= max_storage_bytes

\* C1 witness: two tasks have both accounted bytes, the budget is used up,
\* and one of them is about to ask for more.
C1_Witness ==
    /\ current_storage_bytes = max_storage_bytes
    /\ \E t, u \in Tasks :
         /\ t # u
         /\ Accounted(t) > 0 /\ Accounted(u) > 0
         /\ tasks[t].pc = "recv"
         /\ tasks[t].downloaded_bytes < SizeOf(tasks[t].video.id)

\* C2: Accountant accuracy.  In every reachable state in which no task is
\* between accounting a chunk and writing it or between an error and its
\* failure handling, current_storage_bytes equals the sum of the on-disk
\* file lengths of the discovered items that have a local_path.
C2_AccountantAccuracy ==
    (\A t \in Tasks : tasks[t].pc \notin {"write", "failed"}) =>
        current_storage_bytes =
            SumFileLen({i \in DOMAIN discovered : has_local_file(discovered[i])})

\* C3: Concurrency bound.  At the end of every scheduler tick the number of
\* discovered items with downloading = true is at most
\* max_parallel_downloads.
C3_ConcurrencyBound ==
    TickBoundary =>
        Cardinality({i \in DOMAIN discovered : discovered[i].downloading})
            <= max_parallel_downloads

\* C4: Ingestion is idempotent on id.  When discovery_new_videos ingests a
\* descriptor whose id is already in the table, the record is left unchanged.
C4_IngestionIdempotent ==
    [][IngestionStep => \A i \in DOMAIN discovered : discovered'[i] = discovered[i]]_vars

\* C5: Refund on failure.  When the failure handling of a download task has
\* run, the bytes the task had accounted have been subtracted from
\* current_storage_bytes.
C5_RefundOnFailure ==
    [][\A t \in Tasks :
          FailureHandled(t) =>
              current_storage_bytes' = current_storage_bytes - Accounted(t)]_vars

\* C6: Cleanup on failure.  After the failure handling of a download task
\* whose output path was allocated, the partial file does not exist and the
\* item's record has local_path = None.
C6_CleanupOnFailure ==
    [][\A t \in Tasks :
          FailureHandled(t) /\ IsSome(tasks[t].file_path) =>
              /\ ~IsSome(disk'[Unwrap(tasks[t].file_path)])
              /\ ~has_local_file(discovered'[tasks[t].video.id])]_vars

\* C7: Re-queue after failure.  An item whose download has failed remains in
\* the table and is a member of the queue update_download_queue computes on
\* a later tick.  An item of the table that has no download in flight and
\* is not in the playlist has either never been started or failed, so: every
\* such item is in the queue update_download_queue computes.
C7_RequeueAfterFailure ==
    [][QueueStep =>
          \A i \in DOMAIN discovered :
              TasksOf(i) = {} /\ ~InPlaylist(i) => InQueue(download_queue', i)]_vars

\* C8: Normal completion.  Once the completion handler of a successful
\* download has run, the item's record has downloading = false, its id is
\* not in the download queue and the playlist has exactly one entry of that
\* id.
C8_NormalCompletion ==
    [][\A t \in Tasks :
          CompletionHandled(t) =>
              LET id == tasks[t].video.id
              IN  /\ ~discovered'[id].downloading
                  /\ ~InQueue(download_queue', id)
                  /\ Cardinality({k \in DOMAIN playlist'.items :
                                     playlist'.items[k].id = id}) = 1]_vars

\* C9: Eviction only behind the cursor.  The eviction pass clears local_path
\* only of items whose playlist position is strictly less than the playback
\* index and that are behind it by more than max_behind_seconds of
\* cumulative duration.
C9_EvictionOnlyBehindCursor ==
    [][EvictionStep =>
          \A i \in DOMAIN discovered :
              has_local_file(discovered[i]) /\ ~has_local_file(discovered'[i]) =>
                  /\ InPlaylist(i)
                  /\ PlaylistPosition(i) < current_index
                  /\ DurationBetween(PlaylistPosition(i), current_index)
                         > max_behind_seconds]_vars

\* C10: Refund on eviction.  Whenever the eviction pass clears local_path of
\* items, current_storage_bytes is decreased by their downloaded_bytes.
C10_RefundOnEviction ==
    [][EvictionStep =>
          current_storage_bytes' =
              current_storage_bytes
                  - SumDownloadedBytes({i \in DOMAIN discovered :
                        /\ has_local_file(discovered[i])
                        /\ ~has_local_file(discovered'[i])})]_vars

\* C11: Stop effect.  After stop_download(id) has returned for an item that
\* is queued or being downloaded, the id is not in the download queue, the
\* record has downloading = false, and the item's file, if one had been
\* created, has been deleted.
C11_StopEffect ==
    [][\A id \in Ids :
          stop_download(id) /\ id \in DOMAIN discovered =>
              /\ ~InQueue(download_queue', id)
              /\ ~discovered'[id].downloading
              /\ has_local_file(discovered[id]) =>
                     ~IsSome(disk'[Unwrap(discovered[id].local_path)])]_vars

\* C12: Stop is observed by the running task.  A task in flight for an id
\* that stop_download was called for stops at its next chunk boundary: once
\* it waits for the next chunk it accounts (and writes) no further chunk.
C12_StopObserved ==
    [][\A t \in stopped :
          tasks[t].pc = "recv" => tasks'[t].pc # "write"]_vars

\* The number of times x occurs in the list s.
Count(s, x) == Cardinality({i \in DOMAIN s : s[i] = x})

\* C13: Ranking is a permutation.  For every candidate list and every pair
\* of targets, the list sort_videos_for_download produces contains each
\* input item exactly once and nothing else.
C13_RankingPermutation ==
    rank_calls >= 1 =>
        /\ Len(videos_vec) = Len(videos_in)
        /\ \A x \in RankPool : Count(videos_vec, x) = Count(videos_in, x)

\* C13 witness: a list of at least three candidates has been ranked once,
\* some of them went to the leftover group, and the order has changed.
C13_Witness ==
    /\ rank_calls = 1
    /\ Len(videos_in) >= 3
    /\ partition_for_target(videos_in, tva_arg, tma_arg).leftover # <<>>
    /\ videos_vec # videos_in

\* C14: Ranking idempotence.  For every candidate list and fixed targets,
\* ranking the ranked list again gives the same list.
C14_RankingIdempotent ==
    [][rank_calls = 1 /\ rank_calls' = 2 => videos_vec' = videos_vec]_vars

\* C15: Ranking scenario.  With target_videos_ahead = 2, target_minutes_ahead
\* = 0 and the candidates A, B, C, D, E in this order, the ranker yields
\* the queue A, B, D, E, C.
C15_RankingScenario ==
    /\ videos_in = <<CandA, CandB, CandC, CandD, CandE>>
    /\ tva_arg = 2 /\ tma_arg = 0
    /\ rank_calls = 1
    => videos_vec = <<CandA, CandB, CandD, CandE, CandC>>

\* C15 witness: the scenario's list has been ranked with the scenario's
\* targets: A and B are the near group, the far group is sorted by score.
C15_Witness ==
    /\ videos_in = <<CandA, CandB, CandC, CandD, CandE>>
    /\ tva_arg = 2 /\ tma_arg = 0
    /\ rank_calls = 1
    /\ partition_for_target(videos_in, tva_arg, tma_arg).needed = <<CandA, CandB>>
    /\ SubSeq(videos_vec, 3, 5) = <<CandD, CandE, CandC>>

\* C16: Playlist index agreement.  After any sequence of Playlist operations
\* (add, next, prev, new_content), items_by_id maps the id of the entry at
\* every position i to i, and has exactly items.len() keys.
C16_PlaylistIndexAgreement ==
    /\ \A i \in 1..Len(playlist.items) :
          /\ playlist.items[i].id \in DOMAIN playlist.items_by_id
          /\ playlist.items_by_id[playlist.items[i].id] = i - 1
    /\ Cardinality(DOMAIN playlist.items_by_id) = Len(playlist.items)

\* C16 witness: the playlist holds several entries after more calls of add
\* than it has entries, and new_content has been called on it.
C16_Witness ==
    /\ Len(playlist.items) >= 2
    /\ Len(added) > Len(playlist.items)
    /\ delivered # <<>>

\* C17: Playlist append idempotence.  A call of Playlist::add with a video
\* whose id is already in the playlist leaves items, items_by_id,
\* current_position and last_sent_position unchanged.
C17_PlaylistAddIdempotent ==
    [][/\ Len(added') = Len(added) + 1
       /\ added'[Len(added')] \in DOMAIN playlist.items_by_id
       => playlist' = playlist]_vars

\* C17 witness: add has been called with an id that was in the playlist:
\* the last call's id was also the argument of an earlier one.
C17_Witness ==
    /\ Len(added) >= 2
    /\ \E k \in 1..(Len(added) - 1) : added[k] = added[Len(added)]
    /\ Len(playlist.items) < Len(added)

\* C18: list_new_videos returns only new entries.  Each call returns the
\* playlist entries appended since the previous call, so that no playlist
\* entry is returned by two calls: no id occurs twice in what the calls
\* have returned.
C18_OnlyNewEntries ==
    \A i, j \in DOMAIN delivered :
        i # j => delivered[i].id # delivered[j].id

\* The download of a record is complete: content_length is known and
\* downloaded_bytes has reached it.
Complete(video) ==
    /\ IsSome(video.content_length)
    /\ video.downloaded_bytes >= Unwrap(video.content_length)

\* What a call of ffi_get_discovered_videos returns in the current state.
ListNewVideos ==
    LET got == new_content(playlist)
    IN  [k \in 1..Len(got.result) |-> FfiVideoDownload(got.result[k])]

\* C19: list_new_videos exposes local_path only for complete files.  Every
\* entry a call returns with local_path present refers to an item whose
\* download is complete.
C19_LocalPathOnlyWhenComplete ==
    \A k \in DOMAIN ListNewVideos :
        IsSome(ListNewVideos[k].local_path) =>
            /\ ListNewVideos[k].id \in DOMAIN discovered
            /\ Complete(discovered[ListNewVideos[k].id])

\* C19 witness: a call returns an entry for an item that has a local path in
\* the table and whose download is not complete.
C19_Witness ==
    \E k \in DOMAIN ListNewVideos :
        LET id == ListNewVideos[k].id
        IN  /\ id \in DOMAIN discovered
            /\ has_local_file(discovered[id])
            /\ ~Complete(discovered[id])
            /\ TasksOf(id) # {}

\* C20: start is idempotent.  A second or later call of ffi_start_server
\* creates no additional scheduler loop, HTTP server or shared state, and
\* returns the address bound by the first call.
C20_StartIdempotent ==
    [][IsSome(GLOBAL_STATE) =>
          /\ app_states' = app_states
          /\ schedulers' = schedulers
          /\ servers' = servers
          /\ address' = address]_vars

\* The step in which the background task sends a video into the channel.
SendStep == Len(sent') = Len(sent) + 1

\* The step in which the background task parses a received event.
ParseStep == event = None /\ IsSome(event')

\* A variant with a non-empty content hash and a url that parses with
\* scheme http or https and a non-empty host.
KeptVariant(variant) ==
    /\ IsSome(variant.hash)
    /\ Unwrap(variant.hash) # ""
    /\ IsSome(variant.url)
    /\ IsSome(UrlParse(Unwrap(variant.url)))
    /\ Unwrap(UrlParse(Unwrap(variant.url))).scheme \in {"http", "https"}
    /\ Unwrap(UrlParse(Unwrap(variant.url))).host # ""

\* C21: fetch_new_videos delivers each video exactly once in arrival order.
\* The concatenation of all returned batches is a prefix of the sequence of
\* videos sent into the channel.
C21_DrainInArrivalOrder ==
    /\ Len(batches) <= Len(sent)
    /\ batches = SubSeq(sent, 1, Len(batches))

\* C21 witness: two different videos were sent, both have been returned and
\* no call is under way.
C21_Witness ==
    /\ Len(batches) = 2
    /\ batches[1] # batches[2]
    /\ fetch_result = None
    /\ channel = <<>>

\* C22: author enrichment reaches the emitted video.  When a video is sent
\* and its author's metadata is in the cache under the author's bech32 key
\* (it was cached already or its lookup has succeeded), the video sent
\* carries that author's name and picture.
C22_EnrichmentReachesVideo ==
    [][SendStep =>
          LET video == sent'[Len(sent')]
              author == Unwrap(Head(pending).user.npub)
          IN  author \in DOMAIN known_authors' =>
                  /\ video.user.name = known_authors'[author].name
                  /\ video.user.profile_picture
                         = known_authors'[author].profile_picture]_vars

\* C23: descriptor filtering.  parse_event_as_video makes a video of a
\* variant if and only if the variant has a non-empty hash and a url that
\* parses with scheme http or https and a non-empty host: the videos of an
\* event are those of its kept variants, in order.
C23_DescriptorFiltering ==
    [][ParseStep =>
          LET ev == Unwrap(event')
              kept == SelectSeq(parse_video_variants(ev), KeptVariant)
          IN  pending' = [i \in DOMAIN kept |-> VideoOf(ev, kept[i])]]_vars

\* The requests: an index, a list the handler can take from the table, a
\* Range header or none, and a build.
Requests ==
    {[index |-> n, list |-> l, range_header |-> h, overflow_checks |-> c] :
        n \in 0..MaxRequestIndex, l \in TableLists,
        h \in {None} \cup {Some(r) : r \in RangeHeaders}, c \in OverflowChecks}

Answer(req) ==
    stream_video(req.index, req.list, req.range_header, req.overflow_checks)

\* The request reaches a file: the list has the index, the item has a
\* local_path and the file is on disk.
ReachesFile(req) ==
    /\ req.index < Len(req.list)
    /\ IsSome(req.list[req.index + 1].local_path)
    /\ IsSome(disk[Unwrap(req.list[req.index + 1].local_path)])

\* The request has a header bytes=a-b with a <= b, or bytes=a-.
WellFormedRange(req) ==
    /\ IsSome(req.range_header)
    /\ Unwrap(req.range_header).prefix = "bytes="
    /\ Len(Unwrap(req.range_header).parts) = 2
    /\ Unwrap(req.range_header).parts[1].text = "digits"
    /\ \/ Unwrap(req.range_header).parts[2].text = ""
       \/ /\ Unwrap(req.range_header).parts[2].text = "digits"
          /\ Unwrap(req.range_header).parts[1].value
                 <= Unwrap(req.range_header).parts[2].value

\* C24: range response.  For a file of size total and a header bytes=a-b
\* with a <= b or bytes=a-, the reply is 416 if a >= total, and otherwise 206
\* with Content-Range a-e/total and a body of e - a + 1 bytes, where e is
\* min(b, total - 1), and total - 1 for the open-ended form.
C24_RangeResponse ==
    \A req \in Requests :
        ReachesFile(req) /\ WellFormedRange(req) =>
            LET path == Unwrap(req.list[req.index + 1].local_path)
                total == Unwrap(disk[path])
                a == Unwrap(req.range_header).parts[1].value
                b == Unwrap(req.range_header).parts[2]
                e == IF b.text = "" THEN total - 1 ELSE Min(b.value, total - 1)
            IN  IF a >= total
                THEN Answer(req) = Err("RANGE_NOT_SATISFIABLE")
                ELSE Answer(req) = Reply("PARTIAL_CONTENT", Some(path),
                                         Some(<<a, e, total>>), e - a + 1)

\* C25: the video index means the playlist position.  A request for index n
\* is answered with the file of the playlist entry at position n, and with
\* 404 when the playlist has no position n or that entry has no local_path.
C25_IndexIsPlaylistPosition ==
    \A req \in Requests :
        IF req.index < Len(playlist.items)
              /\ IsSome(playlist.items[req.index + 1].local_path)
        THEN Answer(req).status \in {"OK", "PARTIAL_CONTENT"} =>
                 Answer(req).path = playlist.items[req.index + 1].local_path
        ELSE Answer(req) = Err("NOT_FOUND")

\* C26: downloaded_bytes is monotonic.  In no step does the downloaded_bytes
\* of a record of the discovered table decrease.
C26_DownloadedBytesMonotonic ==
    [][\A id \in DOMAIN discovered :
          id \in DOMAIN discovered' =>
              discovered'[id].downloaded_bytes >= discovered[id].downloaded_bytes]_vars

\* C27: downloading tracks task ownership.  While a download task for an id
\* is in flight, from its admission until its Ok or Err arm has run, the
\* record of the id has downloading true.
C27_DownloadingTracksTask ==
    \A t \in Tasks :
        InFlight(t) /\ tasks[t].video.id \in DOMAIN discovered =>
            discovered[tasks[t].video.id].downloading

\* C28: at every tick boundary, every record of the discovered table with
\* downloading true has local_path set.
C28_DownloadingHasLocalPath ==
    TickBoundary =>
        \A id \in DOMAIN discovered :
            discovered[id].downloading => has_local_file(discovered[id])

\* C29: failure flag handling.  After the Err arm of a download task has
\* run, the record of the task's id has downloading false and the id is not
\* in the download queue.
C29_FailureFlagHandling ==
    [][\A t \in Tasks :
          FailureHandled(t) =>
              /\ tasks[t].video.id \in DOMAIN discovered'
              /\ ~discovered'[tasks[t].video.id].downloading
              /\ ~InQueue(download_queue', tasks[t].video.id)]_vars

\* C29 witness: the Err arm has run for an id: its file is on disk and
\* shorter than the remote file, no task is in flight for it, its record is
\* not downloading and the id is not in the queue.
C29_Witness ==
    \E id \in DOMAIN discovered :
        /\ TasksOf(id) = {}
        /\ has_local_file(discovered[id])
        /\ IsSome(disk[Unwrap(discovered[id].local_path)])
        /\ FileLen(Unwrap(discovered[id].local_path)) < SizeOf(id)
        /\ ~discovered[id].downloading
        /\ ~InQueue(download_queue, id)

\* The place of a mutex in the order accountant, table, queue, playlist; 0
\* for a mutex the order does not name.
LockRank(m) ==
    CASE m = "current_storage_bytes" -> 1
      [] m = "discovered_videos" -> 2
      [] m = "download_queue" -> 3
      [] m = "playlist" -> 4
      [] OTHER -> 0

\* C30: lock order.  The mutexes a thread holds at once were acquired in
\* the order accountant, table, queue, playlist; in particular no thread
\* holds the table mutex acquired after the queue mutex.
C30_LockOrder ==
    \A th \in Threads :
        \A i, j \in DOMAIN held[th] :
            i < j /\ LockRank(held[th][i]) > 0 /\ LockRank(held[th][j]) > 0 =>
                LockRank(held[th][i]) < LockRank(held[th][j])

\* The awaits that are file or HTTP I/O.
IoAwaits ==
    {"fetch_content_lengths_in_parallel", "remove_file", "metadata",
     "File::open", "send", "File::create", "chunk", "write_all", "flush"}

\* The thread is performing I/O: it is in an await of file or HTTP I/O.
PerformingIo(th) ==
    /\ Running(th) /\ ~AtEnd(th)
    /\ NextStep(th).op = "await"
    /\ NextStep(th).m \in IoAwaits

C35_NoStopFailureDeadlock ==
    ~\E th \in Threads, t \in TaskThreads :
        /\ lpath[th] = "stop_download"
        /\ Holds(th, "download_queue")
        /\ ~AtEnd(th) /\ NextStep(th) = Lock("discovered_videos")
        /\ Running(t)
        /\ Holds(t, "discovered_videos")
        /\ ~AtEnd(t) /\ NextStep(t) = Lock("download_queue")

\* The known durations of a list of videos, in seconds.
RECURSIVE KnownSeconds(_)
KnownSeconds(list) ==
    IF list = <<>> THEN 0
    ELSE (IF IsSome(Head(list).length_seconds)
          THEN Unwrap(Head(list).length_seconds) ELSE 0)
         + KnownSeconds(Tail(list))

\* The near and far parts of a ranked candidate list.
NearPart == partition_for_target(videos_in, tva_arg, tma_arg).needed
FarPart == partition_for_target(videos_in, tva_arg, tma_arg).leftover

LengthOrMax(v) ==
    IF v.content_length = None THEN U64Max ELSE Unwrap(v.content_length)

NearInOrder(a, b) ==
    \/ LengthOrMax(a) < LengthOrMax(b)
    \/ LengthOrMax(a) = LengthOrMax(b) /\ ScoreOf(a.id) >= ScoreOf(b.id)

FarInOrder(a, b) ==
    \/ ScoreOf(a.id) > ScoreOf(b.id)
    \/ ScoreOf(a.id) = ScoreOf(b.id) /\ LengthOrMax(a) <= LengthOrMax(b)

\* C33: Sort keys.  In the ranked list the near part is ordered by
\* (content_length ascending, score descending) and the far part by (score
\* descending, content_length ascending); an unknown content_length
\* compares as the maximum u64 in both parts.
C33_SortKeys ==
    rank_calls = 1 =>
        LET n == Len(videos_vec)
            k == Len(NearPart)
        IN  /\ \A i, j \in 1..k :
                  i < j => NearInOrder(videos_vec[i], videos_vec[j])
            /\ \A i, j \in (k + 1)..n :
                  i < j => FarInOrder(videos_vec[i], videos_vec[j])

\* C33 witness: the ranked list has, in its near part, a video of unknown
\* content length after one of 10 GB and two videos of equal length in
\* score order, and in its far part two videos of equal score in length
\* order, one of them of unknown length.
C33_Witness ==
    /\ rank_calls = 1
    /\ LET n == Len(videos_vec)
           k == Len(NearPart)
       IN  /\ \E i, j \in 1..k :
                 /\ i < j
                 /\ videos_vec[i].content_length = Some(1000000000)
                 /\ videos_vec[j].content_length = None
           /\ \E i, j \in 1..k :
                 /\ i < j
                 /\ videos_vec[i].content_length = videos_vec[j].content_length
                 /\ ScoreOf(videos_vec[i].id) > ScoreOf(videos_vec[j].id)
           /\ \E i, j \in (k + 1)..n :
                 /\ i < j
                 /\ ScoreOf(videos_vec[i].id) = ScoreOf(videos_vec[j].id)
                 /\ videos_vec[i].content_length # None
                 /\ videos_vec[j].content_length = None

\* The position of a video in the order of ingestion.
IngestedAt(v) == CHOOSE i \in DOMAIN videos_in : videos_in[i] = v

\* C34: Arrival-order stability of the queue.  In the queue produced by
\* update_download_queue, two items of the same part with equal
\* content_length and equal score appear in the order in which they were
\* ingested into the discovered table.  (The table holds fewer videos than
\* target_videos_ahead, so every item of the queue is in the near part.)
C34_ArrivalOrderStability ==
    rank_calls = 1 /\ Len(videos_vec) <= tva_arg =>
        \A i, j \in DOMAIN videos_vec :
            /\ i < j
            /\ videos_vec[i].content_length = videos_vec[j].content_length
            /\ ScoreOf(videos_vec[i].id) = ScoreOf(videos_vec[j].id)
            => IngestedAt(videos_vec[i]) < IngestedAt(videos_vec[j])

\* C36: At most one download task per id.  In every reachable state at most
\* one download task is in flight for any id.
C36_OneTaskPerId ==
    \A id \in Ids : Cardinality(TasksOf(id)) <= 1

\* C37: Storage counter never decreases.  No operation lowers
\* current_storage_bytes: every change of it is the addition of the length
\* of a chunk a download task has just received, so its value is the total
\* number of bytes ever accounted.
C37_StorageNeverDecreases ==
    [][/\ current_storage_bytes' >= current_storage_bytes
       /\ current_storage_bytes' # current_storage_bytes =>
             \E t \in Tasks :
                 /\ tasks[t].pc = "recv"
                 /\ tasks'[t].pc = "write"
                 /\ tasks'[t].chunk >= 1
                 /\ current_storage_bytes' =
                        current_storage_bytes + tasks'[t].chunk]_vars

\* C37 witness: the counter is at the limit although no download is in
\* flight and no file is left on the disk: the files whose bytes were
\* accounted have been removed by an eviction, a stop or a failure.
C37_Witness ==
    /\ current_storage_bytes = max_storage_bytes
    /\ \A t \in Tasks : ~InFlight(t)
    /\ \A p \in DOMAIN disk : ~IsSome(disk[p])

\* C38: Playlist entries are pre-download snapshots.  In every reachable
\* state every playlist entry has local_path = None and downloading = false;
\* consequently list_new_videos never returns an entry with local_path
\* present.
C38_PlaylistSnapshots ==
    /\ \A i \in DOMAIN playlist.items :
          /\ playlist.items[i].local_path = None
          /\ playlist.items[i].downloading = FALSE
    /\ \A k \in DOMAIN ListNewVideos : ListNewVideos[k].local_path = None

\* C38 witness: the playlist holds an entry, not yet handed out, of a video
\* whose record in the table has the path of a complete file.
C38_Witness ==
    \E k \in DOMAIN ListNewVideos :
        LET id == ListNewVideos[k].id
        IN  /\ \E i \in DOMAIN playlist.items : playlist.items[i].id = id
            /\ id \in DOMAIN discovered
            /\ has_local_file(discovered[id])
            /\ Complete(discovered[id])
            /\ ~discovered[id].downloading
            /\ TasksOf(id) = {}

\* C39: Playlist cursor is never set.  After any sequence of Playlist
\* operations (new, add, current, next, prev, new_content) current_position
\* is None, so current(), next() and prev() return None.
C39_CursorNeverSet ==
    /\ playlist.current_position = None
    /\ PlaylistCurrent(playlist) = None
    /\ PlaylistNextResult(playlist) = None
    /\ PlaylistPrevResult(playlist) = None

\* C39 witness: the playlist holds several entries, which new_content has
\* handed out, and the cursor is unset.
C39_Witness ==
    /\ Len(playlist.items) >= 2
    /\ Len(delivered) >= 2
    /\ playlist.current_position = None
    /\ PlaylistNext(playlist) = playlist
    /\ PlaylistPrev(playlist) = playlist

\* The request has a header bytes=a-b (b < a included) or bytes=a-.
RangeForm(req) ==
    /\ IsSome(req.range_header)
    /\ Unwrap(req.range_header).prefix = "bytes="
    /\ Len(Unwrap(req.range_header).parts) = 2
    /\ Unwrap(req.range_header).parts[1].text = "digits"
    /\ Unwrap(req.range_header).parts[2].text \in {"", "digits"}

\* C40: No unsigned underflow in range handling.  For every file size,
\* that of an empty file included, and every header bytes=a-b or bytes=a-,
\* b < a included, no u64 subtraction of parse_range_header and
\* stream_video has a negative mathematical result: in the build with
\* overflow checks, where such a subtraction panics, no request panics.
C40_NoUnsignedUnderflow ==
    \A req \in Requests :
        ReachesFile(req) /\ RangeForm(req) /\ req.overflow_checks =>
            Answer(req).status # "panic"

====
